---- MODULE Spec2Model ----
(***************************************************************************)
(* Verification model of the compliance-audit backend (sandip-pathe/ibmw). *)
(*                                                                         *)
(* The parts of the program are modelled each with its own                 *)
(* specification over the shared variables:                                *)
(*   SpecAudit  the audit case orchestrator (services/orchestrator.py)     *)
(*   SpecScan   the multi-agent compliance scan and its approval           *)
(*              (services/langgraph_agents.py, compliance_scanner.py)      *)
(*   SpecJob    the indexing job queue (workers/job_queue.py,              *)
(*              workers/indexing_worker.py)                                *)
(*   SpecIndex  repository indexing into code_map                          *)
(*              (workers/indexing_worker.py, models/database.py)           *)
(*   SpecLog    the agent log of a scan (services/agents.py)               *)
(*   SpecLLM    the adjudicator (services/llm.py)                          *)
(*   SpecWebhook   the GitHub webhook endpoint (api/webhooks.py)           *)
(*   SpecGate      the similarity gates of the two pipelines               *)
(*   SpecAnalysis  the compliance-analysis job over code_map               *)
(*                 (workers/indexing_worker.py)                            *)
(*   SpecChunk     the chunker's split (services/chunker.py)               *)
(*   SpecToken     the installation token cache (core/github_auth.py)      *)
(*   SpecEnrich    the enrichment phase of an index run                    *)
(* A specification leaves the variables of the other parts unchanged.      *)
(***************************************************************************)
EXTENDS Integers, Sequences, FiniteSets, TLC

VARIABLES
    now,              \* wall clock read by NOW() and time.time()
    audit_cases,      \* table audit_cases: case_id -> row
    wf_pc,            \* position of the start_audit call of each case
    resume_call,      \* the in-flight resume_audit calls
    compliance_scans, \* table compliance_scans: scan_id -> row
    scan_run,         \* the start_compliance_scan call of each scan (graph state)
    agent_executions, \* table agent_executions: scan_id -> rows in insert order
    approve_call,     \* the in-flight approve_remediation calls
    jira_tickets,     \* tickets created by JiraBotAgent.create_tickets
    jobs,             \* the queue's jobs
    repo_files,       \* the checked-out content of each repository: file -> text
    code_map,         \* table code_map: chunk_hash -> row (chunk_hash is unique)
    repos,            \* table repos: repo_id -> row
    embedding_cache,  \* Redis keys embedding:<text_hash>
    summary_cache,    \* Redis keys nl_summary:<chunk_hash>
    index_result,     \* the last index run and what it returned
    commits,          \* how many commits have been pushed
    agent_logs,       \* Redis lists scan:<scan_id>:logs
    log_reads,        \* what each get_scan_logs call returned
    analyses,         \* the results analyze_compliance has returned
    webhook_events,   \* table webhook_events: event_id -> row
    webhook_call,     \* the in-flight github_webhook requests
    webhook_enqueued, \* indexing jobs handle_push_event enqueued, per delivery id
    gate_checks,      \* the rows the two similarity gates have decided on
    violations,       \* table violations: the inserted row -> how many times it is stored
    analysis_runs,    \* what each run of the compliance-analysis job retrieved and returned
    split_call,       \* the last _split_large_chunk call: its arguments and what it returned
    installation_tokens,\* GitHubAppAuth._installation_tokens: installation_id -> (token, expires_at)
    token_lookup,     \* the last get_installation_token call on the cache and what it did
    enrich_run        \* the enrichment phase of an index run: its position and its process_chunk tasks

auditVars == <<audit_cases, wf_pc, resume_call>>
scanVars  == <<compliance_scans, scan_run, agent_executions, approve_call, jira_tickets>>
jobVars   == <<jobs>>
indexVars == <<repo_files, code_map, repos, embedding_cache, summary_cache,
               index_result, commits>>
logVars   == <<agent_logs, log_reads>>
llmVars   == <<analyses>>
webhookVars == <<webhook_events, webhook_call, webhook_enqueued>>
gateVars  == <<gate_checks>>
analysisVars == <<violations, analysis_runs>>
chunkVars == <<split_call>>
tokenVars == <<installation_tokens, token_lookup>>
enrichVars == <<enrich_run>>
restVars  == <<indexVars, logVars, llmVars, webhookVars, gateVars, analysisVars, chunkVars, tokenVars, enrichVars>>
vars == <<now, audit_cases, wf_pc, resume_call, compliance_scans, scan_run,
          agent_executions, approve_call, jira_tickets, jobs, repo_files,
          code_map, repos, embedding_cache, summary_cache, index_result,
          commits, agent_logs, log_reads, analyses,
          webhook_events, webhook_call, webhook_enqueued,
          gate_checks,
          violations, analysis_runs,
          split_call,
          installation_tokens, token_lookup,
          enrich_run>>

----------------------------------------------------------------------------
(* Bounds *)

MaxTime == 3        \* the clock runs from 1 to MaxTime
NumCases == 1       \* audit cases
NumCallers == 2     \* resume_audit / approve calls that may be in flight

Cases == 1..NumCases
Callers == 1..NumCallers

NULL == "NULL"      \* SQL NULL / Python None in a string-valued field
NoTime == 0         \* SQL NULL in a timestamp column

----------------------------------------------------------------------------
(* Helpers on Python lists *)

InSeq(x, seq) == \E i \in 1..Len(seq) : seq[i] = x

SeqToSet(seq) == {seq[i] : i \in 1..Len(seq)}

\* list.remove(x): removes the first occurrence only
RECURSIVE ListRemove(_, _)
ListRemove(seq, x) ==
    IF seq = <<>> THEN <<>>
    ELSE IF Head(seq) = x THEN Tail(seq)
    ELSE <<Head(seq)>> \o ListRemove(Tail(seq), x)

\* the clock advances between any two steps
Tick ==
    /\ now < MaxTime
    /\ now' = now + 1
    /\ UNCHANGED <<auditVars, scanVars, jobVars, restVars>>

----------------------------------------------------------------------------
(* Audit orchestrator: services/orchestrator.py *)

workflow_steps ==
    <<"rule_ingestion", "code_scanning", "compliance_checking", "report_generation">>

WorkflowSet == SeqToSet(workflow_steps)

\* the first workflow step that is not in steps_completed, else None
RECURSIVE FirstNotIn(_, _)
FirstNotIn(steps, completed) ==
    IF steps = <<>> THEN NULL
    ELSE IF ~InSeq(Head(steps), completed) THEN Head(steps)
    ELSE FirstNotIn(Tail(steps), completed)

\* the row inserted by start_audit
NewCase(t) ==
    [status |-> "running",
     current_step |-> workflow_steps[1],
     steps_completed |-> <<>>,
     steps_pending |-> workflow_steps,
     results |-> {},              \* the <step>_result blobs that are written
     error_message |-> NULL,
     requires_approval |-> FALSE,
     report_data |-> FALSE,       \* whether the report outline is stored
     completed_at |-> NoTime,
     updated_at |-> t]

\* _update_case_status(case_id, status, current_step, error_message) on row
_update_case_status(row, status, current_step, error_message, t) ==
    IF status = "completed"
    THEN [row EXCEPT !.status = status, !.current_step = current_step,
                     !.error_message = error_message,
                     !.completed_at = t, !.updated_at = t]
    ELSE [row EXCEPT !.status = status, !.current_step = current_step,
                     !.error_message = error_message, !.updated_at = t]

\* A slip in the bookkeeping of _mark_step_complete: the finished step is
\* appended to steps_completed but stays in steps_pending.
MarkStepWrite_KeepsPending(row, step_name, read_completed, read_pending, t) ==
    LET sc == IF InSeq(step_name, read_completed) THEN read_completed
              ELSE Append(read_completed, step_name)
    IN [row EXCEPT !.steps_completed = sc,
                   !.steps_pending = read_pending,
                   !.current_step = FirstNotIn(workflow_steps, sc),
                   !.results = @ \cup {step_name},
                   !.updated_at = t]

\* _mark_step_complete, the UPDATE computed from the two lists that its
\* SELECT has read (read_completed, read_pending)
MarkStepWrite(row, step_name, read_completed, read_pending, t) ==
    LET sc == IF InSeq(step_name, read_completed) THEN read_completed
              ELSE Append(read_completed, step_name)
        sp == IF InSeq(step_name, read_pending) THEN ListRemove(read_pending, step_name)
              ELSE read_pending
    IN [row EXCEPT !.steps_completed = sc,
                   !.steps_pending = sp,
                   !.current_step = FirstNotIn(workflow_steps, sc),
                   !.results = @ \cup {step_name},
                   !.updated_at = t]

\* _mark_step_complete with no write of another task between its SELECT
\* and its UPDATE
_mark_step_complete(row, step_name, t) ==
    MarkStepWrite(row, step_name, row.steps_completed, row.steps_pending, t)

CaseExists(c) == c \in DOMAIN audit_cases

\* the start_audit call of case c is inside _execute_workflow
WorkflowPcs ==
    {"rule_ingestion", "code_scanning", "compliance_checking",
     "report_generation", "report_paused"}

\* start_audit has come to an end: returned the case_id, raised, or the
\* process died; only then a client holds the case_id (it is a fresh uuid4)
StartAuditOver(c) == wf_pc[c] \in {"returned", "raised", "crashed"}

\* start_audit, lines 51-73: INSERT the case row, then enter the workflow
start_audit(c) ==
    /\ wf_pc[c] = "idle"
    /\ audit_cases' = [x \in DOMAIN audit_cases \cup {c} |->
                          IF x = c THEN NewCase(now) ELSE audit_cases[x]]
    /\ wf_pc' = [wf_pc EXCEPT ![c] = "rule_ingestion"]
    /\ UNCHANGED <<now, resume_call, scanVars, jobVars, restVars>>

\* a step of _execute_workflow that ends with _mark_step_complete
WorkflowStep(c, step_name, next_pc) ==
    /\ wf_pc[c] = step_name
    /\ audit_cases' = [audit_cases EXCEPT
                          ![c] = _mark_step_complete(@, step_name, now)]
    /\ wf_pc' = [wf_pc EXCEPT ![c] = next_pc]
    /\ UNCHANGED <<now, resume_call, scanVars, jobVars, restVars>>

_step_rule_ingestion(c) == WorkflowStep(c, "rule_ingestion", "code_scanning")

_step_code_scanning(c) == WorkflowStep(c, "code_scanning", "compliance_checking")

_step_compliance_checking(c) ==
    WorkflowStep(c, "compliance_checking", "report_generation")

\* _step_report_generation, lines 207-223: build the outline, then
\* _update_case_status(case_id, "waiting_approval", current_step=...)
_step_report_generation(c) ==
    /\ wf_pc[c] = "report_generation"
    /\ audit_cases' = [audit_cases EXCEPT
          ![c] = _update_case_status(@, "waiting_approval", "report_generation",
                                     NULL, now)]
    /\ wf_pc' = [wf_pc EXCEPT ![c] = "report_paused"]
    /\ UNCHANGED <<now, resume_call, scanVars, jobVars, restVars>>

\* _step_report_generation, lines 225-233: a second statement stores
\* requires_approval and report_data; start_audit then returns the case_id
StoreReportOutline(c) ==
    /\ wf_pc[c] = "report_paused"
    /\ audit_cases' = [audit_cases EXCEPT ![c].requires_approval = TRUE,
                                          ![c].report_data = TRUE]
    /\ wf_pc' = [wf_pc EXCEPT ![c] = "returned"]
    /\ UNCHANGED <<now, resume_call, scanVars, jobVars, restVars>>

\* start_audit, lines 79-82: any statement of the workflow raises (a query
\* fails, a repo row is missing, the import in _step_code_scanning fails);
\* the handler marks the case failed and re-raises
WorkflowRaises(c) ==
    /\ wf_pc[c] \in WorkflowPcs
    /\ audit_cases' = [audit_cases EXCEPT
          ![c] = _update_case_status(@, "failed", NULL, "error", now)]
    /\ wf_pc' = [wf_pc EXCEPT ![c] = "raised"]
    /\ UNCHANGED <<now, resume_call, scanVars, jobVars, restVars>>

\* the process that runs start_audit dies; nothing is written
WorkerCrash(c) ==
    /\ wf_pc[c] \in WorkflowPcs
    /\ wf_pc' = [wf_pc EXCEPT ![c] = "crashed"]
    /\ UNCHANGED <<now, audit_cases, resume_call, scanVars, jobVars, restVars>>

NoCall == [pc |-> "idle", case |-> 0, read_completed |-> <<>>, read_pending |-> <<>>]

\* resume_audit, lines 239-242: read the case and check its status
resume_audit(r, c) ==
    /\ resume_call[r].pc = "idle"
    /\ CaseExists(c)
    /\ StartAuditOver(c)
    /\ resume_call' = [resume_call EXCEPT ![r] =
          [NoCall EXCEPT !.case = c,
                         !.pc = IF audit_cases[c].status # "waiting_approval"
                                THEN "rejected" ELSE "finalize"]]
    /\ UNCHANGED <<now, audit_cases, wf_pc, scanVars, jobVars, restVars>>

\* _finalize_report, line 260, and the SELECT of _mark_step_complete
FinalizeReportRead(r) ==
    /\ resume_call[r].pc = "finalize"
    /\ LET c == resume_call[r].case
       IN resume_call' = [resume_call EXCEPT ![r] =
             [@ EXCEPT !.pc = "mark",
                       !.read_completed = audit_cases[c].steps_completed,
                       !.read_pending = audit_cases[c].steps_pending]]
    /\ UNCHANGED <<now, audit_cases, wf_pc, scanVars, jobVars, restVars>>

\* generate_html_report raises: resume_audit fails before it writes
FinalizeReportRaises(r) ==
    /\ resume_call[r].pc = "finalize"
    /\ resume_call' = [resume_call EXCEPT ![r].pc = "raised"]
    /\ UNCHANGED <<now, audit_cases, wf_pc, scanVars, jobVars, restVars>>

\* the UPDATE of _mark_step_complete(case_id, "report_generation")
FinalizeReportMark(r) ==
    /\ resume_call[r].pc = "mark"
    /\ LET c == resume_call[r].case
       IN audit_cases' = [audit_cases EXCEPT
             ![c] = MarkStepWrite(@, "report_generation",
                                  resume_call[r].read_completed,
                                  resume_call[r].read_pending, now)]
    /\ resume_call' = [resume_call EXCEPT ![r].pc = "complete"]
    /\ UNCHANGED <<now, wf_pc, scanVars, jobVars, restVars>>

\* _finalize_report, line 268: _update_case_status(case_id, "completed")
FinalizeReportComplete(r) ==
    /\ resume_call[r].pc = "complete"
    /\ LET c == resume_call[r].case
       IN audit_cases' = [audit_cases EXCEPT
             ![c] = _update_case_status(@, "completed", NULL, NULL, now)]
    /\ resume_call' = [resume_call EXCEPT ![r].pc = "done"]
    /\ UNCHANGED <<now, wf_pc, scanVars, jobVars, restVars>>

----------------------------------------------------------------------------
(* Compliance scan: services/langgraph_agents.py, compliance_scanner.py *)

NumScans == 1       \* compliance scans
MaxEvidence == 2    \* code locations the Navigator can hand to the Investigator
MaxEdited == 2      \* length of a user-edited task list

Scans == 1..NumScans

InvestigatorCap == 10   \* matched_files[:10]

\* the status a reply of the model can carry for one code location;
\* "unknown" is what the Investigator records for an unparseable reply and
\* stands for every status other than the three named ones
StatusValues == {"implemented", "partial", "missing", "unknown"}

\* the lists of n statuses
EvidenceLists(n) == [1..n -> StatusValues]

\* similarities and distances are counted in hundredths
SimilarityScale == 100

\* settings.similarity_threshold, default 0.7
similarity_threshold == 70

\* the literal 0.7 of the Navigator's gate
NavigatorThreshold == 70

\* the similarities a returned row can have: far off, next to the threshold
\* on either side, the threshold itself, identical vectors
Similarities == {0, similarity_threshold - 1, similarity_threshold,
                 similarity_threshold + 1, SimilarityScale}

\* CodeNavigatorAgent.execute, line 174: if row['similarity'] > 0.7
NavigatorKeeps(similarity) == similarity > NavigatorThreshold

\* _async_analyze_compliance, lines 410-411: a row is skipped when its
\* distance is greater than 1.0 - similarity_threshold
WorkerKeeps(distance) == ~(distance > SimilarityScale - similarity_threshold)

\* the file_path of the i-th row the Navigator kept: the rows of the search
\* are told apart by their position
MatchedPath(i) == i

\* a path that no retrieved row carries: "" or whatever text stands under
\* the "file" key of a reply
NoPath == 0

\* json.loads(response): the "file" of the i-th finding is whatever the reply
\* holds under that key, the prompt's file_path or any other text; the
\* except branch writes the match's file_path
ReplyFiles(n) == {files \in [1..n -> 0..n] :
                     \A i \in 1..n : files[i] \in {MatchedPath(i), NoPath}}

\* build_graph: entry point, nodes and edges of the compiled graph
entry_point == "planner"

END == "END"

\* an edge table that routes the Navigator straight to the checker and
\* runs the Investigator after it
GraphEdge_CheckerFirst(node) ==
    CASE node = "planner" -> "navigator"
      [] node = "navigator" -> "checker"
      [] node = "checker" -> "investigator"
      [] node = "investigator" -> "jira"
      [] node = "jira" -> END

\* workflow.add_edge(...)
GraphEdge(node) ==
    CASE node = "planner" -> "navigator"
      [] node = "navigator" -> "investigator"
      [] node = "investigator" -> "checker"
      [] node = "checker" -> "jira"
      [] node = "jira" -> END

\* workflow.add_node(name, agent.run): the agent_type of the node's agent
AgentOf(node) ==
    CASE node = "planner" -> "PLANNER"
      [] node = "navigator" -> "NAVIGATOR"
      [] node = "investigator" -> "INVESTIGATOR"
      [] node = "checker" -> "JUDGE"
      [] node = "jira" -> "JIRA"

\* the verdict rule with its first test on any(implemented)
OverallStatus_AnyImplemented(statuses) ==
    IF \E i \in 1..Len(statuses) : statuses[i] = "implemented" THEN "compliant"
    ELSE IF \E i \in 1..Len(statuses) : statuses[i] = "missing" THEN "non_compliant"
    ELSE "partial"

\* CodeInvestigatorAgent.execute, line 237: the conditional expression
\* "compliant" if all(...) else "non_compliant" if any(...) else "partial"
OverallStatus(statuses) ==
    IF \A i \in 1..Len(statuses) : statuses[i] = "implemented" THEN "compliant"
    ELSE IF \E i \in 1..Len(statuses) : statuses[i] = "missing" THEN "non_compliant"
    ELSE "partial"

\* ConsistencyCheckerAgent.execute, lines 263-272
JudgeVerdict(status) ==
    IF status = "compliant" THEN "compliant"
    ELSE IF status = "non_compliant" THEN "non_compliant"
    ELSE "partial"

\* JiraBotAgent.execute, lines 296-307: one issue per missing or partial
\* evidence item, from position i on; finding is the item's position
\* "file" is item.get("file", "")
RECURSIVE IssuesFrom(_, _, _)
IssuesFrom(evidence, files, i) ==
    IF i > Len(evidence) THEN <<>>
    ELSE IF evidence[i] \in {"missing", "partial"}
    THEN <<[title |-> "Fix", finding |-> i, file |-> files[i],
            priority |-> IF evidence[i] = "missing" THEN "high" ELSE "medium"]>>
         \o IssuesFrom(evidence, files, i + 1)
    ELSE IssuesFrom(evidence, files, i + 1)

\* JiraBotAgent.execute, lines 292-307
GenerateIssues(verdict, evidence, files) ==
    IF verdict \in {"non_compliant", "partial"}
    THEN IssuesFrom(evidence, files, 1) ELSE <<>>

\* run_scan: initial_state
InitialState ==
    [rule_plan |-> FALSE,
     matched |-> 0,                 \* len(matched_files), 0 while None
     has_investigation |-> FALSE,
     evidence |-> <<>>,             \* the status of each evidence item
     evidence_file |-> <<>>,        \* the "file" of each evidence item
     investigation_status |-> NULL,
     final_verdict |-> NULL,
     has_remediation |-> FALSE,     \* remediation_tasks is not None
     issues |-> <<>>,               \* remediation_tasks["issues"]
     requires_approval |-> FALSE]

\* failure: what made the run raise, the agent's execute or its log call
NoRun == [pc |-> "idle", node |-> entry_point, phase |-> "ready", state |-> InitialState,
          failure |-> NULL]

\* AgentLogger.log, lines 41-44: `import redis.asyncio` inside the function
\* binds the local name redis to the package, after the line before it has
\* bound it to the client; the isinstance test is made on the package
LocalRedisIsClient == FALSE

NoLogs == [entries |-> <<>>, expire_at |-> NoTime]

LogTTL == 3600      \* AgentLogger.ttl_seconds

\* AgentLogger.log with the store reachable (store_up) or not, variant in
\* which the exception leaves the method
AgentLogger_log_Propagates(store, s, agent, message, store_up, t) ==
    [store |-> store, raised |-> ~(store_up /\ LocalRedisIsClient)]

\* AgentLogger.log: RPUSH and, when the key has no TTL, EXPIRE; every
\* exception, the RuntimeError of the isinstance test included, is caught
\* and logged. The result is the new store and whether the call raised.
AgentLogger_log(store, s, agent, message, store_up, t) ==
    IF store_up /\ LocalRedisIsClient
    THEN [store |-> [store EXCEPT ![s].entries =
                        Append(@, [agent |-> agent, message |-> message]),
                                  ![s].expire_at =
                        IF @ = NoTime THEN t + LogTTL ELSE @],
          raised |-> FALSE]
    ELSE [store |-> store, raised |-> FALSE]

\* AgentLogger.get_logs: LRANGE start_index -1 behind the same isinstance
\* test; every exception gives []
AgentLogger_get_logs(store, s, start_index) ==
    IF LocalRedisIsClient
    THEN SubSeq(store[s].entries, start_index + 1, Len(store[s].entries))
    ELSE <<>>

\* compliance_scanner.get_scan_logs: all logs are fetched and sliced
get_scan_logs(store, s, start_index) ==
    LET logs == AgentLogger_get_logs(store, s, 0)
    IN IF start_index > 0 THEN SubSeq(logs, start_index + 1, Len(logs)) ELSE logs

\* BaseAgent.run, lines 80-93: the exception handler of the running agent
FailRun(s, failure, store) ==
    /\ agent_executions' = [agent_executions EXCEPT ![s] =
          Append(@, [agent_name |-> AgentOf(scan_run[s].node), status |-> "failed"])]
    /\ compliance_scans' = [compliance_scans EXCEPT ![s].status = "failed"]
    /\ scan_run' = [scan_run EXCEPT ![s].pc = "raised", ![s].failure = failure]
    /\ \E store_up \in BOOLEAN :
          agent_logs' = AgentLogger_log(store, s, AgentOf(scan_run[s].node),
                                        "failed", store_up, now).store
    /\ UNCHANGED <<now, approve_call, jira_tickets, auditVars, jobVars,
                   indexVars, log_reads, llmVars, webhookVars, gateVars, analysisVars, chunkVars, tokenVars, enrichVars>>

\* the row inserted by start_compliance_scan
NewScan ==
    [status |-> "running",
     has_investigation |-> FALSE,
     evidence |-> <<>>,
     evidence_file |-> <<>>,
     final_verdict |-> NULL,
     has_remediation |-> FALSE,     \* remediation_tasks IS NOT NULL
     issues |-> <<>>,
     requires_user_action |-> FALSE,
     user_decision |-> NULL,
     jira_ticket_ids |-> <<>>,      \* NULL reads as []
     completed_at |-> NoTime]

ScanExists(s) == s \in DOMAIN compliance_scans

\* start_compliance_scan has returned the scan_id or raised; the scan_id is
\* a fresh uuid4 that no client holds before
ScanOver(s) == scan_run[s].pc \in {"returned", "raised"}

\* start_compliance_scan, lines 25-39
start_compliance_scan(s) ==
    /\ scan_run[s].pc = "idle"
    /\ compliance_scans' = [x \in DOMAIN compliance_scans \cup {s} |->
                               IF x = s THEN NewScan ELSE compliance_scans[x]]
    /\ scan_run' = [scan_run EXCEPT ![s] = [NoRun EXCEPT !.pc = "graph"]]
    /\ UNCHANGED <<now, agent_executions, approve_call, jira_tickets, auditVars, jobVars, restVars>>

\* BaseAgent.run, lines 70-73: the node's agent starts
AgentStarts(s) ==
    /\ scan_run[s].pc = "graph"
    /\ scan_run[s].node # END
    /\ scan_run[s].phase = "ready"
    /\ \E store_up \in BOOLEAN :
          LET logged == AgentLogger_log(agent_logs, s, AgentOf(scan_run[s].node),
                                        "running", store_up, now)
          IN IF logged.raised
             THEN FailRun(s, "log", logged.store)
             ELSE /\ agent_logs' = logged.store
                  /\ agent_executions' = [agent_executions EXCEPT ![s] =
                        Append(@, [agent_name |-> AgentOf(scan_run[s].node),
                                   status |-> "running"])]
                  /\ scan_run' = [scan_run EXCEPT ![s].phase = "running"]
                  /\ UNCHANGED <<now, compliance_scans, approve_call, jira_tickets,
                                 auditVars, jobVars, indexVars, log_reads, llmVars, webhookVars, gateVars, analysisVars, chunkVars, tokenVars, enrichVars>>

\* BaseAgent.run, lines 74-79: execute has produced new_state; the agent
\* records its completion and the graph moves along the node's edge
AgentCompletes(s, node, new_state) ==
    /\ scan_run[s].pc = "graph"
    /\ scan_run[s].node = node
    /\ scan_run[s].phase = "running"
    /\ agent_executions' = [agent_executions EXCEPT ![s] =
          Append(@, [agent_name |-> AgentOf(node), status |-> "completed"])]
    /\ scan_run' = [scan_run EXCEPT ![s].state = new_state,
                                    ![s].node = GraphEdge(node),
                                    ![s].phase = "ready"]
    \* the closing log call returns normally whatever happens inside it
    /\ \E store_up \in BOOLEAN :
          agent_logs' = AgentLogger_log(agent_logs, s, AgentOf(node), "completed",
                                        store_up, now).store
    /\ UNCHANGED <<now, compliance_scans, approve_call, jira_tickets, auditVars, jobVars,
                   indexVars, log_reads, llmVars, webhookVars, gateVars, analysisVars, chunkVars, tokenVars, enrichVars>>

RulePlannerAgent_execute(s) ==
    AgentCompletes(s, "planner", [scan_run[s].state EXCEPT !.rule_plan = TRUE])

\* the vector search returns rows with their similarity and the gate keeps
\* those it passes
CodeNavigatorAgent_execute(s) ==
    \E similarities \in [1..MaxEvidence -> Similarities] :
        AgentCompletes(s, "navigator",
            [scan_run[s].state EXCEPT !.matched =
                Cardinality({i \in 1..MaxEvidence : NavigatorKeeps(similarities[i])})])

\* one reply per matched file, at most InvestigatorCap of them
CodeInvestigatorAgent_execute(s) ==
    LET n == IF scan_run[s].state.matched < InvestigatorCap
             THEN scan_run[s].state.matched ELSE InvestigatorCap
    IN \E statuses \in EvidenceLists(n), files \in ReplyFiles(n) :
          AgentCompletes(s, "investigator",
              [scan_run[s].state EXCEPT !.has_investigation = TRUE,
                                        !.evidence = statuses,
                                        !.evidence_file = files,
                                        !.investigation_status = OverallStatus(statuses)])

\* investigation.get("status", "unknown") is always set by the Investigator
ConsistencyCheckerAgent_execute(s) ==
    AgentCompletes(s, "checker",
        [scan_run[s].state EXCEPT
            !.final_verdict = JudgeVerdict(scan_run[s].state.investigation_status)])

JiraBotAgent_execute(s) ==
    AgentCompletes(s, "jira",
        [scan_run[s].state EXCEPT
            !.has_remediation = TRUE,
            !.issues = GenerateIssues(scan_run[s].state.final_verdict,
                                      scan_run[s].state.evidence,
                                      scan_run[s].state.evidence_file),
            !.requires_approval = TRUE])

\* start_compliance_scan, lines 45-66: the graph has ended, the final state
\* is saved and the scan_id is returned
SaveFinalState(s) ==
    /\ scan_run[s].pc = "graph"
    /\ scan_run[s].node = END
    /\ LET st == scan_run[s].state
       IN compliance_scans' = [compliance_scans EXCEPT ![s] =
             [@ EXCEPT !.has_investigation = st.has_investigation,
                       !.evidence = st.evidence,
                       !.evidence_file = st.evidence_file,
                       !.final_verdict = st.final_verdict,
                       !.has_remediation = st.has_remediation,
                       !.issues = st.issues,
                       !.requires_user_action = st.requires_approval,
                       !.status = IF st.requires_approval THEN "waiting_approval"
                                  ELSE "completed"]]
    /\ scan_run' = [scan_run EXCEPT ![s].pc = "returned"]
    /\ UNCHANGED <<now, agent_executions, approve_call, jira_tickets, auditVars, jobVars, restVars>>

\* BaseAgent.run, lines 80-93, and start_compliance_scan, lines 70-76: the
\* running agent raises, records its failure and re-raises; the graph is
\* abandoned and the scan is marked failed
AgentFails(s) ==
    /\ scan_run[s].pc = "graph"
    /\ scan_run[s].node # END
    /\ scan_run[s].phase = "running"
    /\ FailRun(s, "execute", agent_logs)

\* the entries BaseAgent.run has handed to AgentLogger.log for the scan: one
\* per row of agent_executions, in the order of the calls
LogCalls(s) ==
    [i \in 1..Len(agent_executions[s]) |->
        [agent |-> agent_executions[s][i].agent_name,
         message |-> agent_executions[s][i].status]]

MaxReads == 2       \* calls of the logs endpoint

\* GET /scan/{scan_id}/logs: a client that holds the scan_id polls the log
\* from start_index; appended is what the agents have logged when the list
\* is read
get_agent_logs(s, start_index) ==
    /\ ScanOver(s)
    /\ Len(log_reads) < MaxReads
    /\ log_reads' = Append(log_reads,
          [scan |-> s, start_index |-> start_index,
           logs |-> get_scan_logs(agent_logs, s, start_index),
           appended |-> LogCalls(s)])
    /\ UNCHANGED <<now, auditVars, scanVars, jobVars, indexVars, agent_logs, llmVars, webhookVars, gateVars, analysisVars, chunkVars, tokenVars, enrichVars>>

\* a user-edited task; every edited task carries a title
EditedIssue == [title |-> "Edited", finding |-> 0, file |-> NoPath, priority |-> "high"]

\* the edited_issues argument: None, or a list of 0..MaxEdited tasks
EditedOptions ==
    {[supplied |-> FALSE, issues |-> <<>>]}
        \cup {[supplied |-> TRUE, issues |-> [i \in 1..n |-> EditedIssue]] :
                 n \in 0..MaxEdited}

\* truth value of the Python expression edited_issues
Truthy(edited) == edited.supplied /\ Len(edited.issues) > 0

\* approve_and_create_tickets, lines 381-384: the issues that create_tickets
\* will walk through
approve_and_create_tickets(has_remediation, issues, edited) ==
    IF Truthy(edited) /\ has_remediation THEN edited.issues
    ELSE IF has_remediation THEN issues ELSE <<>>

NoApprove ==
    [pc |-> "idle", scan |-> 0, edited |-> [supplied |-> FALSE, issues |-> <<>>],
     generated |-> <<>>, issues |-> <<>>, ticket_ids |-> <<>>]

\* a client can name a scan that does not exist or one whose id it was given
Addressable(s) == ~ScanExists(s) \/ ScanOver(s)

\* approve_remediation, lines 149-184: read the scan, check its status,
\* rebuild the state and enter create_tickets
approve_remediation(a, s, edited) ==
    /\ approve_call[a].pc = "idle"
    /\ Addressable(s)
    /\ approve_call' = [approve_call EXCEPT ![a] =
          IF ~ScanExists(s) \/ compliance_scans[s].status # "waiting_approval"
          THEN [NoApprove EXCEPT !.pc = "rejected", !.scan = s]
          ELSE [NoApprove EXCEPT
                   !.pc = "tickets", !.scan = s, !.edited = edited,
                   !.generated = compliance_scans[s].issues,
                   !.issues = approve_and_create_tickets(
                                  compliance_scans[s].has_remediation,
                                  compliance_scans[s].issues, edited)]]
    /\ UNCHANGED <<now, compliance_scans, scan_run, agent_executions, jira_tickets,
                   auditVars, jobVars, restVars>>

\* create_tickets, lines 321-324: one pass of the loop; the ticket id is
\* COMP-<time>-<idx>
create_tickets(a) ==
    /\ approve_call[a].pc = "tickets"
    /\ Len(approve_call[a].ticket_ids) < Len(approve_call[a].issues)
    /\ LET idx == Len(approve_call[a].ticket_ids)
           ticket_id == <<"COMP", now, idx>>
       IN /\ jira_tickets' = jira_tickets \cup
                {[scan |-> approve_call[a].scan, idx |-> idx,
                  ticket_id |-> ticket_id, call |-> a]}
          /\ approve_call' = [approve_call EXCEPT ![a].ticket_ids = Append(@, ticket_id)]
    /\ UNCHANGED <<now, compliance_scans, scan_run, agent_executions, auditVars, jobVars, restVars>>

\* approve_remediation, lines 187-202: store the decision and the ticket ids
StoreApproval(a) ==
    /\ approve_call[a].pc = "tickets"
    /\ Len(approve_call[a].ticket_ids) = Len(approve_call[a].issues)
    /\ compliance_scans' = [compliance_scans EXCEPT ![approve_call[a].scan] =
          [@ EXCEPT !.user_decision = "approved",
                    !.jira_ticket_ids = approve_call[a].ticket_ids,
                    !.status = "completed",
                    !.completed_at = now]]
    /\ approve_call' = [approve_call EXCEPT ![a].pc = "done"]
    /\ UNCHANGED <<now, scan_run, agent_executions, jira_tickets, auditVars, jobVars, restVars>>

\* decline_remediation, lines 218-225: one UPDATE, whatever the scan's status
decline_remediation(s) ==
    /\ ScanExists(s)
    /\ ScanOver(s)
    /\ compliance_scans' = [compliance_scans EXCEPT ![s] =
          [@ EXCEPT !.user_decision = "declined",
                    !.status = "completed",
                    !.completed_at = now]]
    /\ UNCHANGED <<now, scan_run, agent_executions, approve_call, jira_tickets,
                   auditVars, jobVars, restVars>>

----------------------------------------------------------------------------
(* Indexing jobs: workers/job_queue.py, workers/indexing_worker.py,
   models/job_status.py *)

NumJobs == 3        \* jobs that are enqueued

Jobs == 1..NumJobs

JobMaxRetries == 3  \* JobStatus.max_retries, Settings.max_job_retries

\* a job as enqueue_indexing_job creates it: queue.enqueue is given a
\* timeout and two TTLs and no retry policy; retries and max_retries are
\* the defaults of JobStatus
NewJob ==
    [status |-> "queued",
     result |-> NULL,           \* the "status" of the dictionary the run returns
     retries |-> 0,
     max_retries |-> JobMaxRetries,
     runs |-> 0]                \* how often a worker has executed the job

JobExists(j) == j \in DOMAIN jobs

enqueue_indexing_job(j) ==
    /\ ~JobExists(j)
    /\ jobs' = [x \in DOMAIN jobs \cup {j} |-> IF x = j THEN NewJob ELSE jobs[x]]
    /\ UNCHANGED <<now, auditVars, scanVars, restVars>>

\* a worker takes the job off the queue and calls index_repository
WorkerTakesJob(j) ==
    /\ JobExists(j)
    /\ jobs[j].status = "queued"
    /\ jobs' = [jobs EXCEPT ![j].status = "started", ![j].runs = @ + 1]
    /\ UNCHANGED <<now, auditVars, scanVars, restVars>>

\* index_repository, lines 334-341: _async_index_repository returns
\* {"status": "success", ...} and so does the job
IndexSucceeds(j) ==
    /\ JobExists(j)
    /\ jobs[j].status = "started"
    /\ jobs' = [jobs EXCEPT ![j].status = "finished", ![j].result = "success"]
    /\ UNCHANGED <<now, auditVars, scanVars, restVars>>

\* _async_index_repository, lines 302-308: an error inside the run is caught
\* and returned as {"status": "failed", ...}; index_repository returns it
IndexReturnsFailed(j) ==
    /\ JobExists(j)
    /\ jobs[j].status = "started"
    /\ jobs' = [jobs EXCEPT ![j].status = "finished", ![j].result = "failed"]
    /\ UNCHANGED <<now, auditVars, scanVars, restVars>>

\* index_repository, lines 342-346: an exception leaves the job function
\* (full_name without a slash, a failing status update, the job timeout);
\* the queue holds no retry policy for the job and records it as failed
IndexRaises(j) ==
    /\ JobExists(j)
    /\ jobs[j].status = "started"
    /\ jobs' = [jobs EXCEPT ![j].status = "failed"]
    /\ UNCHANGED <<now, auditVars, scanVars, restVars>>

----------------------------------------------------------------------------
(* Repository indexing: workers/indexing_worker.py, models/database.py,    *)
(* services/chunker.py, and the Redis caches of workers/job_queue.py       *)

NumRepos == 2       \* repositories
NumFiles == 2       \* source files a repository can hold
NumTexts == 2       \* distinct chunk texts
MaxCommits == 2     \* pushes to the repositories
MaxRuns == 2        \* index runs

Repos == 1..NumRepos
Files == 1..NumFiles
Texts == 1..NumTexts

NoFile == 0         \* the path does not exist in the checkout
None == <<>>        \* an embedding or summary that is None / NULL

\* SHA256 of the chunk text alone: neither the repository nor the file path
\* enters the hash
compute_chunk_hash(text) == <<"sha256", text>>

\* the embedding cache is keyed by the same SHA256 of the text
compute_text_hash(text) == <<"sha256", text>>

\* what the providers return for a text when they succeed
embed_text(text) == <<"embedding", text>>
generate_code_summary(code, file_path) == <<"summary", code, file_path>>

\* a file of the model holds one function, which chunk_file returns as one
\* chunk; a path that does not exist gives no chunk
chunk_file(file_path, content, repo_id) ==
    IF content = NoFile THEN <<>>
    ELSE <<[repo_id |-> repo_id,
            file_path |-> file_path,
            chunk_text |-> content,
            chunk_hash |-> compute_chunk_hash(content)]>>

\* the chunks of the files from f on, in the order of the walk
RECURSIVE WalkFiles(_, _)
WalkFiles(r, f) ==
    IF f > NumFiles THEN <<>>
    ELSE chunk_file(f, repo_files[r][f], r) \o WalkFiles(r, f + 1)

\* JobQueue.get_cached_embedding: the stored value, json.loads of what
\* cache_embedding wrote with json.dumps, or None
get_cached_embedding(text_hash) ==
    IF text_hash \in DOMAIN embedding_cache THEN embedding_cache[text_hash] ELSE None

\* JobQueue.get_cached_nl_summary: the stored value or None
get_cached_nl_summary(chunk_hash) ==
    IF chunk_hash \in DOMAIN summary_cache THEN summary_cache[chunk_hash] ELSE None

\* process_chunk: a cached value is used when there is one; otherwise the
\* provider is called, and a provider error leaves the field None
process_chunk(chunk, embed_ok, summary_ok) ==
    LET cached_embedding ==
            get_cached_embedding(compute_text_hash(chunk.chunk_text))
        cached_summary == get_cached_nl_summary(chunk.chunk_hash)
    IN [repo_id |-> chunk.repo_id,
        file_path |-> chunk.file_path,
        chunk_text |-> chunk.chunk_text,
        chunk_hash |-> chunk.chunk_hash,
        embedding |-> IF cached_embedding # None THEN cached_embedding
                      ELSE IF embed_ok THEN embed_text(chunk.chunk_text)
                      ELSE None,
        nl_summary |-> IF cached_summary # None THEN cached_summary
                       ELSE IF summary_ok
                       THEN generate_code_summary(chunk.chunk_text, chunk.file_path)
                       ELSE None]

\* CodeMapQueries.insert_batch: one INSERT per chunk; a chunk whose
\* chunk_hash is already in the table, whatever its repository and file,
\* updates the embedding, the summary and updated_at of the row that is there
UpsertChunk(cm, chunk, t) ==
    IF chunk.chunk_hash \in DOMAIN cm
    THEN [cm EXCEPT ![chunk.chunk_hash] =
             [@ EXCEPT !.embedding = chunk.embedding,
                       !.nl_summary = chunk.nl_summary,
                       !.updated_at = t]]
    ELSE [h \in DOMAIN cm \cup {chunk.chunk_hash} |->
             IF h = chunk.chunk_hash
             THEN [repo_id |-> chunk.repo_id,
                   file_path |-> chunk.file_path,
                   chunk_text |-> chunk.chunk_text,
                   embedding |-> chunk.embedding,
                   nl_summary |-> chunk.nl_summary,
                   updated_at |-> t]
             ELSE cm[h]]

RECURSIVE insert_batch(_, _, _)
insert_batch(cm, chunks, t) ==
    IF chunks = <<>> THEN cm
    ELSE insert_batch(UpsertChunk(cm, Head(chunks), t), Tail(chunks), t)

\* RepositoryQueries.update_sync_status
update_sync_status(rp, repo_id, chunk_count) ==
    [rp EXCEPT ![repo_id].total_chunks = chunk_count]

ChunkHashes(chunks) == {chunks[i].chunk_hash : i \in 1..Len(chunks)}

\* the last index run: its number, repository, kind and returned status
NoIndexRun == [run |-> 0, repo_id |-> 0, kind |-> NULL, status |-> NULL, changed_files |-> {},
               cache_hits |-> {}]

\* a push to the repository: a file is added, changed or removed
Push(r, f, content) ==
    /\ commits < MaxCommits
    /\ content # repo_files[r][f]
    /\ repo_files' = [repo_files EXCEPT ![r][f] = content]
    /\ commits' = commits + 1
    /\ UNCHANGED <<now, code_map, repos, embedding_cache, summary_cache, index_result,
                   auditVars, scanVars, jobVars, logVars, llmVars, webhookVars, gateVars, analysisVars, chunkVars, tokenVars, enrichVars>>

\* the Redis keys are written with ex=604800 and expire
EmbeddingExpires(h) ==
    /\ h \in DOMAIN embedding_cache
    /\ embedding_cache' = [k \in DOMAIN embedding_cache \ {h} |-> embedding_cache[k]]
    /\ UNCHANGED <<now, repo_files, code_map, repos, summary_cache, index_result, commits,
                   auditVars, scanVars, jobVars, logVars, llmVars, webhookVars, gateVars, analysisVars, chunkVars, tokenVars, enrichVars>>

SummaryExpires(h) ==
    /\ h \in DOMAIN summary_cache
    /\ summary_cache' = [k \in DOMAIN summary_cache \ {h} |-> summary_cache[k]]
    /\ UNCHANGED <<now, repo_files, code_map, repos, embedding_cache, index_result, commits,
                   auditVars, scanVars, jobVars, logVars, llmVars, webhookVars, gateVars, analysisVars, chunkVars, tokenVars, enrichVars>>

\* the chunks of a pass that took a value from the cache, as process_chunk
\* returned them
CacheHits(all_chunks, processed) ==
    {[file_path |-> processed[i].file_path,
      chunk_text |-> processed[i].chunk_text,
      embedding |-> get_cached_embedding(compute_text_hash(all_chunks[i].chunk_text)),
      nl_summary |-> get_cached_nl_summary(all_chunks[i].chunk_hash)] :
        i \in {k \in 1..Len(all_chunks) :
                  \/ get_cached_embedding(compute_text_hash(all_chunks[k].chunk_text)) # None
                  \/ get_cached_nl_summary(all_chunks[k].chunk_hash) # None}}

\* the outcome of the two provider calls of each chunk: <<embedding, summary>>
ProviderOutcomes(n) == [1..n -> BOOLEAN \X BOOLEAN]

\* _async_index_repository, lines 175-294: the walk, process_chunk for every
\* chunk, insert_batch and update_sync_status
IndexPass(r, outcomes) ==
    LET all_chunks == WalkFiles(r, 1)
        processed == [i \in 1..Len(all_chunks) |->
                         process_chunk(all_chunks[i], outcomes[i][1], outcomes[i][2])]
        text_hash(i) == compute_text_hash(all_chunks[i].chunk_text)
        \* the chunks whose provider call was made and returned a value
        embedded == {i \in 1..Len(all_chunks) :
                        get_cached_embedding(text_hash(i)) = None /\ outcomes[i][1]}
        summarised == {i \in 1..Len(all_chunks) :
                          get_cached_nl_summary(all_chunks[i].chunk_hash) = None
                              /\ outcomes[i][2]}
        summary_keys == {all_chunks[i].chunk_hash : i \in summarised}
    IN /\ index_result.run < MaxRuns
       /\ embedding_cache' =
              [h \in DOMAIN embedding_cache \cup {text_hash(i) : i \in embedded} |->
                  IF \E i \in embedded : text_hash(i) = h
                  THEN embed_text(all_chunks[CHOOSE i \in embedded : text_hash(i) = h].chunk_text)
                  ELSE embedding_cache[h]]
       \* the tasks of a batch run concurrently: of two chunks with the same
       \* chunk_hash either may be the last to write its summary
       /\ \E last \in [summary_keys -> summarised] :
             /\ \A h \in summary_keys : all_chunks[last[h]].chunk_hash = h
             /\ summary_cache' =
                    [h \in DOMAIN summary_cache \cup summary_keys |->
                        IF h \in summary_keys
                        THEN generate_code_summary(all_chunks[last[h]].chunk_text,
                                                   all_chunks[last[h]].file_path)
                        ELSE summary_cache[h]]
       /\ code_map' = insert_batch(code_map, processed, now)
       /\ repos' = update_sync_status(repos, r, Len(all_chunks))
       /\ index_result' = [run |-> index_result.run + 1, repo_id |-> r, kind |-> "full",
                           status |-> "success", changed_files |-> {},
                           cache_hits |-> CacheHits(all_chunks, processed)]
       /\ UNCHANGED <<now, repo_files, commits, auditVars, scanVars, jobVars, logVars, llmVars, webhookVars, gateVars, analysisVars, chunkVars, tokenVars, enrichVars>>

\* a full index pass that returns {"status": "success"}
_async_index_repository(r) ==
    \E outcomes \in ProviderOutcomes(Len(WalkFiles(r, 1))) : IndexPass(r, outcomes)

\* the token, the clone or the walk raises: nothing is stored
IndexRunRaises(r) ==
    /\ index_result.run < MaxRuns
    /\ index_result' = [run |-> index_result.run + 1, repo_id |-> r, kind |-> "full", status |-> "failed",
                        changed_files |-> {}, cache_hits |-> {}]
    /\ UNCHANGED <<now, repo_files, code_map, repos, embedding_cache, summary_cache,
                   commits, auditVars, scanVars, jobVars, logVars, llmVars, webhookVars, gateVars, analysisVars, chunkVars, tokenVars, enrichVars>>

\* the chunks of the changed files that exist, from file f on
RECURSIVE ChangedChunks(_, _, _)
ChangedChunks(r, changed_files, f) ==
    IF f > NumFiles THEN <<>>
    ELSE (IF f \in changed_files THEN chunk_file(f, repo_files[r][f], r) ELSE <<>>)
         \o ChangedChunks(r, changed_files, f + 1)

\* reindex_changed_files: every chunk of a changed file is embedded and
\* summarised by the providers (no cache) and upserted file by file; a
\* provider error ends the call after the first `stored` files
reindex_changed_files(r, changed_files, stored) ==
    LET chunks == ChangedChunks(r, changed_files, 1)
        done == [i \in 1..stored |->
                    [repo_id |-> chunks[i].repo_id,
                     file_path |-> chunks[i].file_path,
                     chunk_text |-> chunks[i].chunk_text,
                     chunk_hash |-> chunks[i].chunk_hash,
                     embedding |-> embed_text(chunks[i].chunk_text),
                     nl_summary |-> generate_code_summary(chunks[i].chunk_text,
                                                          chunks[i].file_path)]]
    IN /\ index_result.run < MaxRuns
       /\ stored \in 0..Len(chunks)
       /\ code_map' = insert_batch(code_map, done, now)
       /\ index_result' = [run |-> index_result.run + 1, repo_id |-> r, kind |-> "delta",
                           status |-> IF stored = Len(chunks) THEN "success" ELSE "failed",
                           changed_files |-> changed_files, cache_hits |-> {}]
       /\ UNCHANGED <<now, repo_files, repos, embedding_cache, summary_cache, commits,
                      auditVars, scanVars, jobVars, logVars, llmVars, webhookVars, gateVars, analysisVars, chunkVars, tokenVars, enrichVars>>

----------------------------------------------------------------------------
(* The adjudicator: LLMService.analyze_compliance, services/llm.py *)

MaxAnalyses == 3    \* analyze_compliance calls

\* the verdicts the prompt asks the provider for
PromptVerdicts == {"compliant", "non_compliant", "partial", "unknown"}

\* what the provider may reply: a JSON object as the prompt describes it,
\* text that is no JSON, or the empty string
ProviderReplies ==
    {[kind |-> "json", verdict |-> v] : v \in PromptVerdicts}
        \cup {[kind |-> "malformed", verdict |-> NULL],
              [kind |-> "empty", verdict |-> NULL]}

\* json.loads raises JSONDecodeError for the empty string and for text that
\* is no JSON
RaisesJSONDecodeError(reply) == reply.kind # "json"

\* the dictionary json.loads returns for a JSON reply
json_loads(reply) ==
    [verdict |-> reply.verdict,
     severity |-> "high",
     severity_score |-> "8.0",
     explanation |-> "parsed"]

\* analyze_compliance, lines 162-179: the parsed reply is returned as it is,
\* a reply that does not parse is replaced by a fixed dictionary
analyze_compliance(reply) ==
    IF RaisesJSONDecodeError(reply)
    THEN [verdict |-> "unknown",
          severity |-> "medium",
          severity_score |-> "5.0",
          explanation |-> reply.kind]
    ELSE json_loads(reply)

\* one call of the adjudicator with the reply the provider gives
AnalyzeCompliance(reply) ==
    /\ Len(analyses) < MaxAnalyses
    /\ analyses' = Append(analyses, [reply |-> reply, result |-> analyze_compliance(reply)])
    /\ UNCHANGED <<now, auditVars, scanVars, jobVars, indexVars, logVars, webhookVars, gateVars, analysisVars, chunkVars, tokenVars, enrichVars>>


----------------------------------------------------------------------------
(* The GitHub webhook endpoint (api/webhooks.py) *)

NumDeliveries == 2
Deliveries == 1..NumDeliveries

NoDelivery == [pc |-> "idle", delivery_id |-> 0]

\* WebhookEventQueries.is_processed: TRUE only for a row whose processed
\* flag is set; a missing row and an unprocessed row are both FALSE.
is_processed(d) ==
    d \in DOMAIN webhook_events /\ webhook_events[d].processed = TRUE

\* WebhookEventQueries.insert: INSERT ... ON CONFLICT (event_id) DO NOTHING.
WebhookEventQueries_insert(d) ==
    IF d \in DOMAIN webhook_events
    THEN webhook_events
    ELSE [e \in DOMAIN webhook_events \cup {d} |->
             IF e = d THEN [processed |-> FALSE] ELSE webhook_events[e]]

\* WebhookEventQueries.mark_processed: UPDATE ... SET processed = true.
WebhookEventQueries_mark_processed(d) ==
    [webhook_events EXCEPT ![d].processed = TRUE]

\* github_webhook, up to the dispatch: the idempotency check answers a
\* processed delivery at once, any other delivery is stored and handled.
\* A sender whose last request was answered may send the next one.
github_webhook(w, d) ==
    /\ webhook_call[w].pc # "handling"
    /\ IF is_processed(d)
       THEN /\ webhook_call' = [webhook_call EXCEPT
                   ![w] = [pc |-> "already_processed", delivery_id |-> d]]
            /\ UNCHANGED webhook_events
       ELSE /\ webhook_events' = WebhookEventQueries_insert(d)
            /\ webhook_call' = [webhook_call EXCEPT
                   ![w] = [pc |-> "handling", delivery_id |-> d]]
    /\ UNCHANGED <<now, auditVars, scanVars, jobVars, indexVars, logVars,
                   llmVars, webhook_enqueued, gateVars, analysisVars, chunkVars, tokenVars, enrichVars>>

\* handle_push_event returns: the push to the default branch enqueued an
\* indexing job, and github_webhook marks the event processed and answers
\* success.
handle_push_event(w) ==
    /\ webhook_call[w].pc = "handling"
    /\ webhook_enqueued' = [webhook_enqueued EXCEPT
           ![webhook_call[w].delivery_id] = @ + 1]
    /\ webhook_events' =
           WebhookEventQueries_mark_processed(webhook_call[w].delivery_id)
    /\ webhook_call' = [webhook_call EXCEPT ![w].pc = "success"]
    /\ UNCHANGED <<now, auditVars, scanVars, jobVars, indexVars, logVars,
                   llmVars, gateVars, analysisVars, chunkVars, tokenVars, enrichVars>>

\* The handler raises (the repository lookup or the queue fails): the except
\* branch answers HTTP 500 and the event stays unprocessed.
WebhookHandlerRaises(w) ==
    /\ webhook_call[w].pc = "handling"
    /\ webhook_call' = [webhook_call EXCEPT ![w].pc = "error"]
    /\ UNCHANGED <<now, auditVars, scanVars, jobVars, indexVars, logVars,
                   llmVars, webhook_events, webhook_enqueued, gateVars, analysisVars, chunkVars, tokenVars, enrichVars>>


----------------------------------------------------------------------------
(* The similarity gates applied to one returned row *)

MaxGateChecks == 3

\* the Navigator's gate on a row of the given similarity
NavigatorGate(similarity) ==
    /\ Len(gate_checks) < MaxGateChecks
    /\ gate_checks' = Append(gate_checks,
           [pipeline |-> "agent", similarity |-> similarity,
            kept |-> NavigatorKeeps(similarity)])
    /\ UNCHANGED <<now, auditVars, scanVars, jobVars, indexVars, logVars,
                   llmVars, webhookVars, analysisVars, chunkVars, tokenVars, enrichVars>>

\* the analysis worker's gate on a row of the given similarity, whose
\* distance column is 1 - similarity
WorkerGate(similarity) ==
    /\ Len(gate_checks) < MaxGateChecks
    /\ gate_checks' = Append(gate_checks,
           [pipeline |-> "worker", similarity |-> similarity,
            kept |-> WorkerKeeps(SimilarityScale - similarity)])
    /\ UNCHANGED <<now, auditVars, scanVars, jobVars, indexVars, logVars,
                   llmVars, webhookVars, analysisVars, chunkVars, tokenVars, enrichVars>>


----------------------------------------------------------------------------
(* The compliance-analysis job: _async_analyze_compliance,                  *)
(* workers/indexing_worker.py, over code_map                                *)

MaxAnalysisRuns == 2

\* search_similar(..., top_k=5)
top_k == 5

\* the distance column of a row whose embedding is NULL: NULL
NoDistance == -1

\* the distances a stored vector can have from the regulation's vector: on
\* the threshold and just beyond it
Distances == {SimilarityScale - similarity_threshold,
              SimilarityScale - similarity_threshold + 1}

\* the rows of code_map with WHERE repo_id = $2
RowsOfRepo(cm, repo_id) == {h \in DOMAIN cm : cm[h].repo_id = repo_id}

\* embedding <-> $1::vector of a row; distance_of gives the distance of the
\* stored vectors
DistanceOf(cm, h, distance_of) ==
    IF cm[h].embedding = None THEN NoDistance ELSE distance_of[h]

\* ORDER BY embedding <-> $1::vector, ascending: NULL sorts last
OrderedBefore(d1, d2) ==
    IF d1 = NoDistance THEN FALSE
    ELSE IF d2 = NoDistance THEN TRUE
    ELSE d1 < d2

\* CodeMapQueries.search_similar: the result sets the query can return, the
\* first top_k rows of the repository in the order of the distance (rows of
\* equal distance in any order); each row carries its distance column
search_similar(cm, repo_id, distance_of) ==
    LET rows == RowsOfRepo(cm, repo_id)
        n == IF Cardinality(rows) < top_k THEN Cardinality(rows) ELSE top_k
    IN {{[chunk_hash |-> h,
          file_path |-> cm[h].file_path,
          embedding |-> cm[h].embedding,
          distance |-> DistanceOf(cm, h, distance_of)] : h \in S} :
          S \in {T \in SUBSET rows :
                    /\ Cardinality(T) = n
                    /\ \A a \in T, b \in rows \ T :
                          ~OrderedBefore(DistanceOf(cm, b, distance_of),
                                         DistanceOf(cm, a, distance_of))}}

\* lines 408-438: the rows that pass the gate and that the adjudicator finds
\* non_compliant or partial become violations of the scan
FoundViolations(scan_id, similar_chunks, verdict_of) ==
    {[scan_id |-> scan_id, rule_id |-> 1, code_chunk_id |-> c.chunk_hash,
      file_path |-> c.file_path, verdict |-> verdict_of[c.chunk_hash]] :
        c \in {k \in similar_chunks :
                  /\ WorkerKeeps(k.distance)
                  /\ verdict_of[k.chunk_hash] \in {"non_compliant", "partial"}}}

\* ViolationQueries.insert_batch: a plain INSERT of every row, each under a
\* violation_id of its own
ViolationQueries_insert_batch(table, rows) ==
    [v \in DOMAIN table \cup rows |->
        (IF v \in DOMAIN table THEN table[v] ELSE 0) + (IF v \in rows THEN 1 ELSE 0)]

\* _async_analyze_compliance for one regulation clause that has an embedding:
\* the search, the gate, the adjudication of every kept row, then the insert
\* and the status "completed".  The gate compares the distance column with a
\* float: a NULL distance raises TypeError outside the inner try, and the
\* outer except marks the scan failed before anything is inserted.
_async_analyze_compliance(scan_id, repo_id) ==
    /\ Len(analysis_runs) < MaxAnalysisRuns
    /\ \E distance_of \in [RowsOfRepo(code_map, repo_id) -> Distances],
          verdict_of \in [RowsOfRepo(code_map, repo_id) -> {"non_compliant", "compliant"}] :
          \E similar_chunks \in search_similar(code_map, repo_id, distance_of) :
             LET raises == \E c \in similar_chunks : c.distance = NoDistance
             IN /\ violations' =
                       IF raises THEN violations
                       ELSE ViolationQueries_insert_batch(violations,
                                FoundViolations(scan_id, similar_chunks, verdict_of))
                /\ analysis_runs' = Append(analysis_runs,
                       [scan_id |-> scan_id, repo_id |-> repo_id,
                        similar_chunks |-> similar_chunks,
                        status |-> IF raises THEN "failed" ELSE "success"])
    /\ UNCHANGED <<now, auditVars, scanVars, jobVars, indexVars, logVars,
                   llmVars, webhookVars, gateVars, chunkVars, tokenVars, enrichVars>>


----------------------------------------------------------------------------
(* The chunker's split of a large chunk: CodeChunker._split_large_chunk,    *)
(* services/chunker.py.  A text is the sequence of the lengths of its lines *)

max_tokens == 8         \* settings.max_chunk_tokens, scaled down
MaxLines == 4           \* lines of a chunk
MaxStartLine == 2       \* first line of the chunk in its file

\* a line is empty, short or long
LineLengths == {0, 8, 40}

Chunks == UNION {[1..n -> LineLengths] : n \in 1..MaxLines}

RECURSIVE SumOf(_)
SumOf(lines) == IF lines = <<>> THEN 0 ELSE Head(lines) + SumOf(Tail(lines))

\* len("\n".join(lines))
JoinedLength(lines) ==
    IF lines = <<>> THEN 0 ELSE SumOf(lines) + Len(lines) - 1

\* estimate_tokens: len(text) // 4, here of the joined lines
estimate_tokens(lines) == JoinedLength(lines) \div 4

\* lines[i : i + max_lines], i counted from 0
Slice(lines, i, max_lines) ==
    SubSeq(lines, i + 1, IF i + max_lines < Len(lines) THEN i + max_lines ELSE Len(lines))

\* the loop for i in range(0, len(lines), max_lines), from i on
RECURSIVE SubChunksFrom(_, _, _, _)
SubChunksFrom(lines, start_line, max_lines, i) ==
    IF i >= Len(lines) THEN <<>>
    ELSE LET chunk_lines == Slice(lines, i, max_lines)
         IN <<[start_line |-> start_line + i,
               end_line |-> start_line + i + Len(chunk_lines),
               first |-> i,                     \* index of its first line in the text
               chunk_lines |-> chunk_lines]>>
            \o SubChunksFrom(lines, start_line, max_lines, i + max_lines)

\* _split_large_chunk: max_lines = max_tokens // 4
_split_large_chunk(lines, start_line) ==
    SubChunksFrom(lines, start_line, max_tokens \div 4, 0)

NoSplit == [lines |-> <<>>, start_line |-> 0, sub_chunks |-> <<>>]

\* chunk_file, lines 69-78: a chunk whose estimate exceeds max_tokens is split
SplitLargeChunk(lines, start_line) ==
    /\ estimate_tokens(lines) > max_tokens
    /\ split_call' = [lines |-> lines, start_line |-> start_line,
                      sub_chunks |-> _split_large_chunk(lines, start_line)]
    /\ UNCHANGED <<now, auditVars, scanVars, jobVars, indexVars, logVars,
                   llmVars, webhookVars, gateVars, analysisVars, tokenVars, enrichVars>>


----------------------------------------------------------------------------
(* The installation token cache: GitHubAppAuth, core/github_auth.py, and    *)
(* its caller GitHubClient.get_installation_token, core/github_client.py   *)

NumInstallations == 2
NumTokens == 2
MaxExpiry == 4

Installations == 1..NumInstallations
Tokens == 1..NumTokens
Expiries == 1..MaxExpiry

\* timedelta(minutes=5), one tick of the clock
TokenMargin == 1

NoToken == 0

NoLookup == [installation_id |-> 0, at |-> NoTime, raised |-> FALSE, token |-> NoToken]

\* expires_at > datetime.utcnow() + timedelta(minutes=5): utcnow() is a naive
\* datetime, and Python raises TypeError when a naive and an offset-aware
\* datetime are compared
ExpiryCheck(entry, t) ==
    IF entry.aware THEN [raised |-> TRUE, value |-> FALSE]
    ELSE [raised |-> FALSE, value |-> entry.expires_at > t + TokenMargin]

\* GitHubAppAuth.get_installation_token with cached=True
get_installation_token(installation_id) ==
    /\ token_lookup' =
          IF installation_id \in DOMAIN installation_tokens
          THEN LET entry == installation_tokens[installation_id]
                   check == ExpiryCheck(entry, now)
               IN [installation_id |-> installation_id, at |-> now,
                   raised |-> check.raised,
                   token |-> IF ~check.raised /\ check.value THEN entry.token ELSE NoToken]
          ELSE [installation_id |-> installation_id, at |-> now,
                raised |-> FALSE, token |-> NoToken]
    /\ UNCHANGED <<now, installation_tokens, auditVars, scanVars, jobVars, indexVars,
                   logVars, llmVars, webhookVars, gateVars, analysisVars, chunkVars, enrichVars>>

\* GitHubAppAuth.cache_installation_token.  GitHubClient passes
\* datetime.fromisoformat(response["expires_at"].replace("Z", "+00:00")), an
\* offset-aware datetime; the tests pass datetime.utcnow() + timedelta(...),
\* a naive one.
cache_installation_token(installation_id, token, expires_at, aware) ==
    /\ installation_tokens' =
          [i \in DOMAIN installation_tokens \cup {installation_id} |->
              IF i = installation_id
              THEN [token |-> token, expires_at |-> expires_at, aware |-> aware]
              ELSE installation_tokens[i]]
    /\ UNCHANGED <<now, token_lookup, auditVars, scanVars, jobVars, indexVars,
                   logVars, llmVars, webhookVars, gateVars, analysisVars, chunkVars, enrichVars>>

\* GitHubAppAuth.invalidate_installation_token
invalidate_installation_token(installation_id) ==
    /\ installation_id \in DOMAIN installation_tokens
    /\ installation_tokens' =
          [i \in DOMAIN installation_tokens \ {installation_id} |-> installation_tokens[i]]
    /\ UNCHANGED <<now, token_lookup, auditVars, scanVars, jobVars, indexVars,
                   logVars, llmVars, webhookVars, gateVars, analysisVars, chunkVars, enrichVars>>


----------------------------------------------------------------------------
(* The enrichment phase of _async_index_repository, lines 213-284: the     *)
(* process_chunk tasks of a run, batch by batch, then the insert           *)

batch_size == 3         \* batch_size = 10, scaled down
NumChunks == 4          \* len(all_chunks)

ChunkIds == 1..NumChunks

\* pc: idle, enriching, stored (insert_batch has run) or failed (the run
\* returned {"status": "failed"}); batch_start: i of the loop, from 0;
\* task: the process_chunk task of each chunk
NoEnrichment ==
    [pc |-> "idle", batch_start |-> 0, task |-> [i \in ChunkIds |-> "pending"]]

\* all_chunks[i : i + batch_size]
Batch(i) == {k \in ChunkIds : i < k /\ k <= i + batch_size}

\* asyncio.gather(*[process_chunk(chunk) for chunk in batch]): the tasks of
\* the batch that starts at i are created together
StartBatch(run, i) ==
    [run EXCEPT !.pc = "enriching", !.batch_start = i,
                !.task = [k \in ChunkIds |-> IF k \in Batch(i) THEN "running" ELSE @[k]]]

\* the walk is done and the first batch is started
StartEnrichment ==
    /\ enrich_run.pc = "idle"
    /\ enrich_run' = StartBatch(enrich_run, 0)
    /\ UNCHANGED <<now, auditVars, scanVars, jobVars, indexVars, logVars, llmVars,
                   webhookVars, gateVars, analysisVars, chunkVars, tokenVars>>

\* process_chunk returns its chunk with both fields set
TaskSucceeds(k) ==
    /\ enrich_run.task[k] = "running"
    /\ enrich_run' = [enrich_run EXCEPT !.task[k] = "done"]
    /\ UNCHANGED <<now, auditVars, scanVars, jobVars, indexVars, logVars, llmVars,
                   webhookVars, gateVars, analysisVars, chunkVars, tokenVars>>

\* a provider call of the task fails: the inner gather has
\* return_exceptions=True, the field is set to None and the task returns
TaskProviderFails(k) ==
    /\ enrich_run.task[k] = "running"
    /\ enrich_run' = [enrich_run EXCEPT !.task[k] = "failed"]
    /\ UNCHANGED <<now, auditVars, scanVars, jobVars, indexVars, logVars, llmVars,
                   webhookVars, gateVars, analysisVars, chunkVars, tokenVars>>

\* a cache lookup of the task raises (lines 216-220, before the try): the
\* outer gather re-raises at once, the loop over the batches is left and the
\* run's except branch returns {"status": "failed"}
TaskRaises(k) ==
    /\ enrich_run.pc = "enriching"
    /\ enrich_run.task[k] = "running"
    /\ enrich_run' = [enrich_run EXCEPT !.task[k] = "raised", !.pc = "failed"]
    /\ UNCHANGED <<now, auditVars, scanVars, jobVars, indexVars, logVars, llmVars,
                   webhookVars, gateVars, analysisVars, chunkVars, tokenVars>>

\* index_repository: asyncio.run returns and cancels the tasks that are
\* still running
LoopCloses ==
    /\ enrich_run.pc = "failed"
    /\ \E k \in ChunkIds : enrich_run.task[k] = "running"
    /\ enrich_run' = [enrich_run EXCEPT !.task =
           [k \in ChunkIds |-> IF @[k] = "running" THEN "cancelled" ELSE @[k]]]
    /\ UNCHANGED <<now, auditVars, scanVars, jobVars, indexVars, logVars, llmVars,
                   webhookVars, gateVars, analysisVars, chunkVars, tokenVars>>

\* the gather of the batch has returned: every task of the batch returned
BatchReturned ==
    /\ enrich_run.pc = "enriching"
    /\ \A k \in Batch(enrich_run.batch_start) : enrich_run.task[k] \in {"done", "failed"}

\* the next turn of the loop
NextBatch ==
    /\ BatchReturned
    /\ enrich_run.batch_start + batch_size < NumChunks
    /\ enrich_run' = StartBatch(enrich_run, enrich_run.batch_start + batch_size)
    /\ UNCHANGED <<now, auditVars, scanVars, jobVars, indexVars, logVars, llmVars,
                   webhookVars, gateVars, analysisVars, chunkVars, tokenVars>>

\* the loop is over: CodeMapQueries.insert_batch(conn, all_chunks)
StoreChunks ==
    /\ BatchReturned
    /\ enrich_run.batch_start + batch_size >= NumChunks
    /\ enrich_run' = [enrich_run EXCEPT !.pc = "stored"]
    /\ UNCHANGED <<now, auditVars, scanVars, jobVars, indexVars, logVars, llmVars,
                   webhookVars, gateVars, analysisVars, chunkVars, tokenVars>>


----------------------------------------------------------------------------
(* Initial state: empty tables, no call in flight *)

Init ==
    /\ now = 1
    /\ audit_cases = <<>>
    /\ wf_pc = [c \in Cases |-> "idle"]
    /\ resume_call = [r \in Callers |-> NoCall]
    /\ compliance_scans = <<>>
    /\ scan_run = [s \in Scans |-> NoRun]
    /\ agent_executions = [s \in Scans |-> <<>>]
    /\ approve_call = [a \in Callers |-> NoApprove]
    /\ jira_tickets = {}
    /\ jobs = <<>>
    /\ repo_files = [r \in Repos |-> [f \in Files |-> NoFile]]
    /\ code_map = <<>>
    /\ repos = [r \in Repos |-> [total_chunks |-> 0]]
    /\ embedding_cache = <<>>
    /\ summary_cache = <<>>
    /\ index_result = NoIndexRun
    /\ commits = 0
    /\ agent_logs = [s \in Scans |-> NoLogs]
    /\ log_reads = <<>>
    /\ analyses = <<>>
    /\ webhook_events = <<>>
    /\ webhook_call = [w \in Callers |-> NoDelivery]
    /\ webhook_enqueued = [d \in Deliveries |-> 0]
    /\ gate_checks = <<>>
    /\ violations = <<>>
    /\ analysis_runs = <<>>
    /\ split_call = NoSplit
    /\ installation_tokens = <<>>
    /\ token_lookup = NoLookup
    /\ enrich_run = NoEnrichment

NextAudit ==
    \/ Tick
    \/ \E c \in Cases : start_audit(c)
    \/ \E c \in Cases : _step_rule_ingestion(c)
    \/ \E c \in Cases : _step_code_scanning(c)
    \/ \E c \in Cases : _step_compliance_checking(c)
    \/ \E c \in Cases : _step_report_generation(c)
    \/ \E c \in Cases : StoreReportOutline(c)
    \/ \E c \in Cases : WorkflowRaises(c)
    \/ \E c \in Cases : WorkerCrash(c)
    \/ \E r \in Callers, c \in Cases : resume_audit(r, c)
    \/ \E r \in Callers : FinalizeReportRead(r)
    \/ \E r \in Callers : FinalizeReportRaises(r)
    \/ \E r \in Callers : FinalizeReportMark(r)
    \/ \E r \in Callers : FinalizeReportComplete(r)

SpecAudit == Init /\ [][NextAudit]_vars

\* the steps of a running start_audit call are scheduled until it ends;
\* resume_audit calls and crashes are up to the environment
WorkflowProgress(c) ==
    \/ _step_rule_ingestion(c)
    \/ _step_code_scanning(c)
    \/ _step_compliance_checking(c)
    \/ _step_report_generation(c)
    \/ StoreReportOutline(c)
    \/ WorkflowRaises(c)

FairSpecAudit ==
    Init /\ [][NextAudit]_vars /\ \A c \in Cases : WF_vars(WorkflowProgress(c))

\* the scan pipeline: start_compliance_scan and the agents of its graph
NextScan ==
    \/ \E s \in Scans : start_compliance_scan(s)
    \/ \E s \in Scans : AgentStarts(s)
    \/ \E s \in Scans : RulePlannerAgent_execute(s)
    \/ \E s \in Scans : CodeNavigatorAgent_execute(s)
    \/ \E s \in Scans : CodeInvestigatorAgent_execute(s)
    \/ \E s \in Scans : ConsistencyCheckerAgent_execute(s)
    \/ \E s \in Scans : JiraBotAgent_execute(s)
    \/ \E s \in Scans : SaveFinalState(s)
    \/ \E s \in Scans : AgentFails(s)

\* the calls of the approval endpoint on the scans
NextDecision ==
    \/ Tick
    \/ \E a \in Callers, s \in Scans, edited \in EditedOptions :
          approve_remediation(a, s, edited)
    \/ \E a \in Callers : create_tickets(a)
    \/ \E a \in Callers : StoreApproval(a)
    \/ \E s \in Scans : decline_remediation(s)

NextApproval == NextScan \/ NextDecision

SpecScan == Init /\ [][NextScan]_vars

SpecApproval == Init /\ [][NextApproval]_vars

\* the scan pipeline and the clients that poll its log
NextLog ==
    \/ NextScan
    \/ \E s \in Scans, start_index \in 0..MaxEvidence : get_agent_logs(s, start_index)

SpecLog == Init /\ [][NextLog]_vars

NextLLM == \E reply \in ProviderReplies : AnalyzeCompliance(reply)

SpecLLM == Init /\ [][NextLLM]_vars

NextJob ==
    \/ \E j \in Jobs : enqueue_indexing_job(j)
    \/ \E j \in Jobs : WorkerTakesJob(j)
    \/ \E j \in Jobs : IndexSucceeds(j)
    \/ \E j \in Jobs : IndexReturnsFailed(j)
    \/ \E j \in Jobs : IndexRaises(j)

SpecJob == Init /\ [][NextJob]_vars

\* pushes, index runs and cache expiry
NextIndex ==
    \/ Tick
    \/ \E r \in Repos, f \in Files, content \in Texts \cup {NoFile} : Push(r, f, content)
    \/ \E t \in Texts : EmbeddingExpires(compute_text_hash(t))
    \/ \E t \in Texts : SummaryExpires(compute_chunk_hash(t))
    \/ \E r \in Repos : _async_index_repository(r)
    \/ \E r \in Repos : IndexRunRaises(r)
    \/ \E r \in Repos, changed_files \in SUBSET Files, stored \in 0..NumFiles :
          reindex_changed_files(r, changed_files, stored)

SpecIndex == Init /\ [][NextIndex]_vars


NextWebhook ==
    \/ \E w \in Callers, d \in Deliveries : github_webhook(w, d)
    \/ \E w \in Callers : handle_push_event(w)
    \/ \E w \in Callers : WebhookHandlerRaises(w)

SpecWebhook == Init /\ [][NextWebhook]_vars


NextGate ==
    \/ \E similarity \in Similarities : NavigatorGate(similarity)
    \/ \E similarity \in Similarities : WorkerGate(similarity)

SpecGate == Init /\ [][NextGate]_vars


\* pushes, full index passes and compliance-analysis jobs
NextAnalysis ==
    \/ \E r \in Repos, f \in Files, content \in Texts \cup {NoFile} : Push(r, f, content)
    \/ \E r \in Repos : _async_index_repository(r)
    \/ \E s \in Scans, r \in Repos : _async_analyze_compliance(s, r)

SpecAnalysis == Init /\ [][NextAnalysis]_vars


NextChunk ==
    \E lines \in Chunks, start_line \in 1..MaxStartLine : SplitLargeChunk(lines, start_line)

SpecChunk == Init /\ [][NextChunk]_vars


NextToken ==
    \/ Tick
    \/ \E i \in Installations : get_installation_token(i)
    \/ \E i \in Installations, token \in Tokens, expires_at \in Expiries, aware \in BOOLEAN :
          cache_installation_token(i, token, expires_at, aware)
    \/ \E i \in Installations : invalidate_installation_token(i)

SpecToken == Init /\ [][NextToken]_vars


NextEnrich ==
    \/ StartEnrichment
    \/ \E k \in ChunkIds : TaskSucceeds(k)
    \/ \E k \in ChunkIds : TaskProviderFails(k)
    \/ \E k \in ChunkIds : TaskRaises(k)
    \/ LoopCloses
    \/ NextBatch
    \/ StoreChunks

SpecEnrich == Init /\ [][NextEnrich]_vars

----------------------------------------------------------------------------
(* Claims about the audit orchestrator *)

CaseRows == {audit_cases[c] : c \in DOMAIN audit_cases}

\* the transitions of the case state machine
DeclaredTransitions ==
    {<<"pending", "running">>, <<"running", "waiting_approval">>,
     <<"waiting_approval", "completed">>, <<"running", "failed">>,
     <<"running", "paused">>, <<"paused", "running">>}

\* C2: the status of an audit case changes only along pending -> running,
\* running -> waiting_approval, waiting_approval -> completed,
\* running -> failed, running -> paused and paused -> running.
C2_StatusFollowsStateMachine ==
    [][\A c \in DOMAIN audit_cases :
          audit_cases'[c].status # audit_cases[c].status
              => <<audit_cases[c].status, audit_cases'[c].status>>
                     \in DeclaredTransitions]_vars

\* the persisted fields of a case that C3 names
CaseState(row) ==
    <<row.status, row.current_step, row.steps_completed, row.steps_pending,
      row.results, row.error_message, row.completed_at>>

\* C3: once a case is completed or failed, no later operation changes its
\* status, current_step, steps_completed, steps_pending, result blobs,
\* error_message or completed_at.
C3_TerminalCaseImmutable ==
    [][\A c \in DOMAIN audit_cases :
          audit_cases[c].status \in {"completed", "failed"}
              => CaseState(audit_cases'[c]) = CaseState(audit_cases[c])]_vars

CurrentStepSet(row) == IF row.current_step = NULL THEN {} ELSE {row.current_step}

\* C4 as stated: steps_completed, the current step (when there is one) and
\* steps_pending are pairwise disjoint and their union is the workflow set.
C4_PairwiseDisjointPartition ==
    \A row \in CaseRows :
        /\ SeqToSet(row.steps_completed) \cap SeqToSet(row.steps_pending) = {}
        /\ SeqToSet(row.steps_completed) \cap CurrentStepSet(row) = {}
        /\ CurrentStepSet(row) \cap SeqToSet(row.steps_pending) = {}
        /\ SeqToSet(row.steps_completed) \cup CurrentStepSet(row)
               \cup SeqToSet(row.steps_pending) = WorkflowSet

\* C4 amended: steps_completed and steps_pending are disjoint and their
\* union is the workflow set; the current step, when there is one, is not
\* in steps_completed: it is the first element of steps_pending.
C4_CompletedPendingPartition ==
    \A row \in CaseRows :
        /\ SeqToSet(row.steps_completed) \cap SeqToSet(row.steps_pending) = {}
        /\ SeqToSet(row.steps_completed) \cup SeqToSet(row.steps_pending) = WorkflowSet
        /\ row.current_step # NULL =>
              /\ row.current_step \notin SeqToSet(row.steps_completed)
              /\ row.steps_pending # <<>>
              /\ row.current_step = Head(row.steps_pending)

\* a case in the middle of its workflow: two steps done, the third current
C4_Witness ==
    \E row \in CaseRows :
        /\ row.steps_completed = <<"rule_ingestion", "code_scanning">>
        /\ row.current_step = "compliance_checking"

\* C5: after the process executing a case has crashed, the case is resumed
\* and does not remain in running forever (stated for leaving running, which
\* reaching waiting_approval implies).
C5_CrashedCaseLeavesRunning ==
    \A c \in Cases :
        (wf_pc[c] = "crashed")
            ~> (CaseExists(c) /\ audit_cases[c].status # "running")

----------------------------------------------------------------------------
(* Claims about the compliance scan and its approval *)

\* C1: under any interleaving of approve calls on a scan, at most one
\* ticket is created per remediation finding (position in the task list).
C1_AtMostOneTicketPerFinding ==
    \A t1 \in jira_tickets, t2 \in jira_tickets :
        (t1.scan = t2.scan /\ t1.idx = t2.idx) => t1 = t2

\* the order of the steps that C6 names, by agent_type
AgentSequence == <<"PLANNER", "NAVIGATOR", "INVESTIGATOR", "JUDGE", "JIRA">>

Follows(prev, next) ==
    \E k \in 1..(Len(AgentSequence) - 1) :
        AgentSequence[k] = prev /\ AgentSequence[k + 1] = next

\* C6: the steps of a scan run strictly sequentially in the order Planner,
\* Navigator, Investigator, Judge, Remediator: a step starts only when its
\* predecessor has completed (the first one when nothing has run), every
\* step ends before another starts, and nothing starts after a failure.
C6_StepsStrictlySequential ==
    \A s \in Scans :
        LET rows == agent_executions[s]
        IN \A i \in 1..Len(rows) :
              /\ rows[i].status = "running" =>
                    \/ i = 1 /\ rows[i].agent_name = AgentSequence[1]
                    \/ /\ i > 1
                       /\ rows[i - 1].status = "completed"
                       /\ Follows(rows[i - 1].agent_name, rows[i].agent_name)
              /\ rows[i].status \in {"completed", "failed"} =>
                    /\ i > 1
                    /\ rows[i - 1].status = "running"
                    /\ rows[i - 1].agent_name = rows[i].agent_name

\* all five steps of a scan have run to completion
C6_Witness ==
    \E s \in Scans :
        /\ Len(agent_executions[s]) = 2 * Len(AgentSequence)
        /\ agent_executions[s][2 * Len(AgentSequence)] =
               [agent_name |-> "JIRA", status |-> "completed"]

\* C7: an approve call that has run to its end has created exactly one
\* ticket per task of the effective list: the edited replacement whenever
\* one is supplied, whatever its length, and the generated list otherwise.
C7_OneTicketPerEffectiveTask ==
    \A a \in Callers :
        approve_call[a].pc = "done" =>
            LET call == approve_call[a]
                effective == IF call.edited.supplied THEN call.edited.issues
                             ELSE call.generated
            IN /\ Len(call.ticket_ids) = Len(effective)
               /\ Cardinality({t \in jira_tickets : t.call = a}) = Len(effective)

\* C8: a declined scan has no tickets: its jira_ticket_ids is empty and no
\* ticket has been created for it.
C8_DeclinedScanHasNoTickets ==
    \A s \in DOMAIN compliance_scans :
        compliance_scans[s].user_decision = "declined" =>
            /\ compliance_scans[s].jira_ticket_ids = <<>>
            /\ {t \in jira_tickets : t.scan = s} = {}

\* the verdict rule as C9 words it
RuleVerdict(statuses) ==
    IF \E i \in 1..Len(statuses) : statuses[i] = "missing" THEN "non_compliant"
    ELSE IF \A i \in 1..Len(statuses) : statuses[i] = "implemented" THEN "compliant"
    ELSE "partial"

\* C9: for every list of per-hit statuses, the Judge's verdict is
\* non_compliant if any status is missing, otherwise compliant if all are
\* implemented, otherwise partial; in the graph state and in the saved scan.
C9_VerdictFollowsRule ==
    /\ \A s \in Scans :
          scan_run[s].state.final_verdict # NULL =>
              scan_run[s].state.final_verdict = RuleVerdict(scan_run[s].state.evidence)
    /\ \A s \in DOMAIN compliance_scans :
          compliance_scans[s].final_verdict # NULL =>
              compliance_scans[s].final_verdict = RuleVerdict(compliance_scans[s].evidence)

\* a saved verdict over a list that holds a status outside the three
C9_Witness ==
    \E s \in DOMAIN compliance_scans :
        /\ compliance_scans[s].evidence = <<"implemented", "unknown">>
        /\ compliance_scans[s].final_verdict = "partial"

----------------------------------------------------------------------------
(* Claims about the job queue *)

\* the execution of the job has failed for good: the queue holds it as
\* failed, or as finished with a result that reports the failure
TerminallyFailed(j) ==
    \/ jobs[j].status = "failed"
    \/ jobs[j].status = "finished" /\ jobs[j].result = "failed"

\* C10: a job becomes terminally failed only when its retries count has
\* reached max_retries (a failed execution below it is run again).
C10_FailsOnlyAfterRetries ==
    \A j \in DOMAIN jobs :
        TerminallyFailed(j) => jobs[j].retries = jobs[j].max_retries

\* JobQueue.get_job_status: the status the queue holds for the job and the
\* value the job function returned
get_job_status(j) == [status |-> jobs[j].status, result |-> jobs[j].result]

\* the run of the job hit a fatal error: _async_index_repository caught it and
\* returned {"status": "failed"}, or it left index_repository as an exception
RunHitFatalError(j) ==
    \/ jobs[j].result = "failed"
    \/ jobs[j].status = "failed"

\* C11: a job whose index run hit a fatal error is reported with status
\* failed by the queue's job-status operation, never as finished.
C11_FatalErrorReportedFailed ==
    \A j \in DOMAIN jobs :
        RunHitFatalError(j) => get_job_status(j).status = "failed"

----------------------------------------------------------------------------
(* Claims about repository indexing *)

\* the chunk hashes of the code_map rows whose repo_id is r
RepoRows(r) == {h \in DOMAIN code_map : code_map[h].repo_id = r}

\* the chunk hashes a full pass over the present content of r produces
ProducedHashes(r) == ChunkHashes(WalkFiles(r, 1))

\* the step is an index run of the given kind
IndexRunStep(kind) ==
    /\ index_result'.run # index_result.run
    /\ index_result'.kind = kind

\* C12: after a full index run of a repo, successful or failed and after
\* any sequence of runs, the repo's total_chunks equals the number of
\* code_map rows whose repo_id is that repo.
C12_TotalChunksCountsRows ==
    \A r \in Repos :
        (index_result.kind = "full" /\ index_result.repo_id = r)
            => repos[r].total_chunks = Cardinality(RepoRows(r))

\* C13: after a successful full index pass of a repo, every code_map row of
\* that repo has a chunk_hash that the pass produced.
C13_FullPassPrunesRemoved ==
    [][(IndexRunStep("full") /\ index_result'.status = "success")
        => \A h \in DOMAIN code_map' :
              code_map'[h].repo_id = index_result'.repo_id
                  => h \in ProducedHashes(index_result'.repo_id)]_vars

\* C14: a full pass over a repo whose content is the content already stored
\* leaves the stored embedding of every row of the repo as it was.
C14_ReindexKeepsEmbeddings ==
    [][(/\ IndexRunStep("full")
        /\ index_result'.status = "success"
        /\ ProducedHashes(index_result'.repo_id) = RepoRows(index_result'.repo_id))
        => \A h \in RepoRows(index_result'.repo_id) :
              code_map[h].embedding # None
                  => code_map'[h].embedding = code_map[h].embedding]_vars

\* C15: after a successful full pass of a repo every chunk the pass produced
\* is stored in a row owned by that repo, and the rows of the other repos
\* are as they were.
C15_RepoOwnsItsChunks ==
    [][(IndexRunStep("full") /\ index_result'.status = "success")
        => /\ \A h \in ProducedHashes(index_result'.repo_id) :
                 /\ h \in DOMAIN code_map'
                 /\ code_map'[h].repo_id = index_result'.repo_id
           /\ \A h \in DOMAIN code_map :
                 code_map[h].repo_id # index_result'.repo_id
                     => code_map'[h] = code_map[h]]_vars

\* C16: a delta re-index of a set of changed files leaves every code_map row
\* that belongs to another file (or another repo) identical in every field.
C16_DeltaLeavesOtherFiles ==
    [][IndexRunStep("delta")
        => \A h \in DOMAIN code_map :
              ~(/\ code_map[h].repo_id = index_result'.repo_id
                /\ code_map[h].file_path \in index_result'.changed_files)
                  => code_map'[h] = code_map[h]]_vars

----------------------------------------------------------------------------
(* Claims about the agent log *)

\* C17: every read of a scan's log from index i returns exactly the entries
\* the agents have appended so far from position i on, in append order.
C17_ReadReturnsAppendedEntries ==
    \A k \in 1..Len(log_reads) :
        log_reads[k].logs =
            SubSeq(log_reads[k].appended, log_reads[k].start_index + 1,
                   Len(log_reads[k].appended))

\* the persisted result of a scan whose graph ran to its end is the one the
\* evidence determines
ResultFollowsEvidence(s) ==
    LET row == compliance_scans[s]
        verdict == JudgeVerdict(OverallStatus(row.evidence))
    IN /\ row.status = "waiting_approval"
       /\ row.final_verdict = verdict
       /\ row.issues = GenerateIssues(verdict, row.evidence, row.evidence_file)

\* C18: a failing or lost agent log never changes the scan: a scan whose
\* agents all executed ends in waiting_approval with the verdict, findings
\* and remediation tasks its evidence determines, and a scan fails only
\* because an agent's execute failed, never because of a log call.
C18_LogFailureLeavesScanState ==
    \A s \in Scans :
        /\ scan_run[s].pc = "returned" => ResultFollowsEvidence(s)
        /\ scan_run[s].pc = "raised" => scan_run[s].failure = "execute"

\* a scan has run to its end although log calls of its agents failed: its
\* log holds fewer entries than the agents logged
C18_Witness ==
    \E s \in Scans :
        /\ scan_run[s].pc = "returned"
        /\ compliance_scans[s].issues # <<>>
        /\ Len(agent_logs[s].entries) < Len(LogCalls(s))

\* C19: while a scan is running or waiting for approval, the entries its
\* agents have logged are not expired: they are all readable.
C19_LogReadableUntilTerminal ==
    \A s \in DOMAIN compliance_scans :
        compliance_scans[s].status \in {"running", "waiting_approval"}
            => get_scan_logs(agent_logs, s, 0) = LogCalls(s)

----------------------------------------------------------------------------
(* Claims about the adjudicator *)

Verdicts == {"compliant", "non_compliant", "partial", "unclear"}

\* C20: for every provider reply the returned verdict is one of compliant,
\* non_compliant, partial, unclear, and a malformed or empty reply gives
\* verdict unclear with severity medium and severity_score 5.0.
C20_VerdictInFixedSet ==
    \A k \in 1..Len(analyses) :
        /\ analyses[k].result.verdict \in Verdicts
        /\ analyses[k].reply.kind \in {"malformed", "empty"}
              => /\ analyses[k].result.verdict = "unclear"
                 /\ analyses[k].result.severity = "medium"
                 /\ analyses[k].result.severity_score = "5.0"

----------------------------------------------------------------------------
(* Claims about the approval of a scan, continued *)

\* the fields of a scan that approve and decline write
Decision(row) ==
    [status |-> row.status,
     user_decision |-> row.user_decision,
     jira_ticket_ids |-> row.jira_ticket_ids]

\* C28: approve and decline take effect only on a scan in waiting_approval:
\* no step changes the status, user_decision or jira_ticket_ids of a scan
\* that is completed or failed.
C28_DecisionOnlyWhenWaiting ==
    [][\A s \in DOMAIN compliance_scans :
          compliance_scans[s].status \in {"completed", "failed"}
              => Decision(compliance_scans'[s]) = Decision(compliance_scans[s])]_vars

----------------------------------------------------------------------------
(* Claims about the webhook endpoint *)

\* C29: for any delivery id, under any sequence or interleaving of duplicate
\* deliveries carrying that id, the event handler completes successfully,
\* and so enqueues indexing work, at most once.
C29_HandledAtMostOnce ==
    \A d \in Deliveries : webhook_enqueued[d] <= 1

----------------------------------------------------------------------------
(* Claims about where a finding's location comes from *)

\* the file paths of the rows the Navigator kept for scan s
RetrievedPaths(s) == {MatchedPath(k) : k \in 1..scan_run[s].state.matched}

\* C21: the file path carried by each finding and each remediation task is
\* copied from a code chunk that retrieval returned for that scan; none
\* originates from the provider's output.
C21_LocationsFromRetrieval ==
    \A s \in Scans :
        LET st == scan_run[s].state
        IN /\ \A i \in 1..Len(st.evidence_file) :
                  st.evidence_file[i] \in RetrievedPaths(s)
           /\ \A i \in 1..Len(st.issues) : st.issues[i].file \in RetrievedPaths(s)

----------------------------------------------------------------------------
(* Claims about the similarity gate *)

\* C25: a retrieved chunk is passed on to adjudication if and only if its
\* similarity (1 minus distance) is greater than or equal to the threshold;
\* a hit whose similarity equals the threshold exactly is kept, in both the
\* agent pipeline and the analysis worker.
C25_KeptIffAtLeastThreshold ==
    \A i \in 1..Len(gate_checks) :
        gate_checks[i].kept <=> gate_checks[i].similarity >= similarity_threshold

----------------------------------------------------------------------------
(* Claims about the enrichment caches *)

\* C22: the embedding and the summary attached to a chunk on a cache hit are
\* identical to what a cache-miss call to the provider would have produced
\* for that same chunk (same text, language and file path).
C22_CacheHitEqualsColdCall ==
    \A c \in index_result.cache_hits :
        /\ c.embedding # None => c.embedding = embed_text(c.chunk_text)
        /\ c.nl_summary # None
               => c.nl_summary = generate_code_summary(c.chunk_text, c.file_path)

----------------------------------------------------------------------------
(* Claims about the compliance-analysis job *)

\* C30: every row returned by vector retrieval (search_similar) has a
\* non-null embedding and a defined numeric distance: a chunk stored with a
\* null embedding is never returned and never reaches the similarity gate.
C30_RetrievedRowsHaveEmbedding ==
    \A i \in 1..Len(analysis_runs) :
        \A c \in analysis_runs[i].similar_chunks :
            c.embedding # None /\ c.distance # NoDistance

\* C23: running the compliance-analysis job twice for the same scan leaves
\* the stored findings of the scan as they were after the first run: no
\* finding is persisted twice.
C23_NoFindingStoredTwice ==
    \A v \in DOMAIN violations : violations[v] <= 1

----------------------------------------------------------------------------
(* Claims about the chunker *)

\* C27: when the chunker splits a chunk whose token estimate exceeds
\* max_tokens, every sub-chunk has a token estimate of at most max_tokens and
\* its start_line and end_line are the absolute line numbers of its first and
\* last line in the file, so consecutive sub-chunks cover adjacent,
\* non-overlapping ranges that together equal the original chunk's range.
C27_SubChunksBoundedAndAdjacent ==
    LET subs == split_call.sub_chunks
        n == Len(subs)
    IN split_call # NoSplit =>
          /\ \A k \in 1..n :
                /\ estimate_tokens(subs[k].chunk_lines) <= max_tokens
                /\ subs[k].start_line = split_call.start_line + subs[k].first
                /\ subs[k].end_line =
                       split_call.start_line + subs[k].first + Len(subs[k].chunk_lines) - 1
          /\ \A k \in 1..(n - 1) : subs[k + 1].start_line = subs[k].end_line + 1
          /\ n > 0 => /\ subs[1].start_line = split_call.start_line
                      /\ subs[n].end_line =
                             split_call.start_line + Len(split_call.lines) - 1

----------------------------------------------------------------------------
(* Claims about the installation token cache *)

\* C24: a cached lookup of an installation's token returns the most recently
\* cached token of that installation if and only if it has not been
\* invalidated since and its expiry lies more than 5 minutes after the
\* current time; otherwise it returns nothing; operations on one installation
\* never affect another's entry.
C24_LookupReturnsValidTokenOrNothing ==
    [][/\ \A i \in Installations :
             token_lookup' # token_lookup /\ token_lookup'.installation_id = i
                 => /\ ~token_lookup'.raised
                    /\ token_lookup'.token =
                          IF /\ i \in DOMAIN installation_tokens
                             /\ installation_tokens[i].expires_at > now + TokenMargin
                          THEN installation_tokens[i].token
                          ELSE NoToken
       /\ \E j \in Installations :
             \A k \in Installations \ {j} :
                /\ k \in DOMAIN installation_tokens' <=> k \in DOMAIN installation_tokens
                /\ k \in DOMAIN installation_tokens
                      => installation_tokens'[k] = installation_tokens[k]]_vars

----------------------------------------------------------------------------
(* Claims about the enrichment phase *)

\* C26: during the enrichment phase at most batch_size (10) enrichment tasks
\* are in flight at any time, chunks are persisted only after every
\* enrichment task of the run has finished, by success or by its own failure,
\* and a failing task never cancels or skips the other tasks.
C26_BatchedIsolatedEnrichment ==
    /\ Cardinality({k \in ChunkIds : enrich_run.task[k] = "running"}) <= batch_size
    /\ enrich_run.pc = "stored"
           => \A k \in ChunkIds : enrich_run.task[k] \in {"done", "failed"}
    /\ \A k \in ChunkIds : enrich_run.task[k] # "cancelled"
    /\ enrich_run.pc \in {"stored", "failed"}
           => \A k \in ChunkIds : enrich_run.task[k] # "pending"

====
